---- MODULE Spec2Model ----
(***************************************************************************)
(* KaraKeep Companion (src/app.js): the client-side bookmark dashboard.    *)
(* Flat list rows and bookmark rows are built into a hierarchy, the root   *)
(* lists are laid out in NUM_COLUMNS columns following the saved           *)
(* preferences, cards are reordered by drag and drop and the layout is     *)
(* saved, and a search box shows and hides bookmarks, lists and columns.   *)
(***************************************************************************)
EXTENDS Integers, Sequences, FiniteSets, TLC

VARIABLES
    configJson,        \* the config.json resource as the server holds it
    localStorage,      \* the browser's local store (the two karakeep-* keys)
    lists,             \* rows of the bookmarkLists query, in ORDER BY name order
    bookmarksInLists,  \* rows of the bookmarks query (one per list membership)
    pc,                \* "start" | "config" | "rendered" | "notSynced" | "error"
    config,            \* the global config object
    listsById,         \* the hierarchy built by loadBookmarks
    rootLists,         \* the global rootLists (ids, in order)
    columns,           \* DOM: per .grid-column, the ids of its .list-section cards
    rendered,          \* DOM: the list containers renderList produced
    display,           \* DOM: style.display of bookmarks, list containers, columns
    dragOverColumn,    \* DOM: the columns carrying class drag-over-column
    requests,          \* POST /api/preferences requests in flight
    saveSeq,           \* history: number of saveColumnOrder calls so far
    storedSeq,         \* history: which save each store currently holds
    loadedSeq,         \* history: which save the loaded config came from
    afterDrag,         \* history: the columns as shown right after the last drag
    lastSearch,        \* history: the last filterBookmarks call
    searchValue,       \* DOM: the value of the search box
    timeout,           \* the timer handle held by the debounced listener
    timers,            \* the pending setTimeout timers of the listener
    typing,            \* history: input events, time since the last, passes since,
                       \* passes in all
    cache,             \* the answers of the cache endpoints (cache version)
    reloadTimers,      \* pending setTimeout(location.reload) timers
    loadLog            \* history: how the fetches of this page load ended

vars == <<configJson, localStorage, lists, bookmarksInLists, pc, config, listsById,
          rootLists, columns, rendered, display, dragOverColumn, requests, saveSeq,
          storedSeq, loadedSeq, afterDrag, lastSearch, searchValue, timeout, timers,
          typing, cache, reloadTimers, loadLog>>

debounceVars == <<searchValue, timeout, timers, typing>>

cacheVars == <<cache, reloadTimers>>

(***************************************************************************)
(* Program constants and the bounds of the model.                          *)
(***************************************************************************)
NUM_COLUMNS == 4

\* JavaScript's null / undefined / absent id (falsy)
Null == 0

\* hierarchy inputs: number of list rows, number of bookmark rows, bookmark ids
MaxLists == 3
MaxRows == 2
MaxBookmarkIds == 2

\* column layout inputs: root lists in the pool, entries of a saved layout,
\* length of a saved flat order
MaxPool == 3
MaxSaved == 2
MaxOrder == 2

\* reorder: cards on the page, drags per run, requests in flight
MaxCards == 2
MaxDrags == 2
MaxInflight == 2

\* search: list rows, bookmark rows, length of the typed text
MaxSearchLists == 4
MaxSearchRows == 2
MaxQueryLen == 2

ColumnIndexes == 0..(NUM_COLUMNS - 1)

Min(a, b) == IF a < b THEN a ELSE b

Range(s) == {s[i] : i \in DOMAIN s}

SeqsUpTo(S, n) == UNION {[1..k -> S] : k \in 0..n}

(***************************************************************************)
(* Strings are sequences of characters.                                    *)
(***************************************************************************)
toLowerCase(s) ==
    [i \in 1..Len(s) |-> IF s[i] = "A" THEN "a" ELSE IF s[i] = "B" THEN "b"
                         ELSE IF s[i] = "U" THEN "u" ELSE s[i]]

RECURSIVE trimStart(_)
trimStart(s) ==
    IF s # <<>> /\ Head(s) = " " THEN trimStart(Tail(s)) ELSE s

RECURSIVE trimEnd(_)
trimEnd(s) ==
    IF s # <<>> /\ s[Len(s)] = " " THEN trimEnd(SubSeq(s, 1, Len(s) - 1)) ELSE s

trim(s) == trimEnd(trimStart(s))

includes(s, q) ==
    \E i \in 0..(Len(s) - Len(q)) : SubSeq(s, i + 1, i + Len(q)) = q

Untitled == <<"U", "n", "t", "i", "t", "l", "e", "d">>

Hash == <<"#">>

(***************************************************************************)
(* Preferences.  columnLayout is an object keyed by column index; cols[i]  *)
(* is the array saved under key i, <<>> when the key is missing (the code  *)
(* reads columnLayout[i] || []); key NUM_COLUMNS stands for the saved      *)
(* indexes >= N.  present = FALSE is a missing (undefined) property.       *)
(***************************************************************************)
LayoutKeys == 0..NUM_COLUMNS

EmptyCols == [c \in LayoutKeys |-> <<>>]

DefaultPreferences ==
    [columnOrder |-> [present |-> TRUE, ids |-> <<>>],
     columnLayout |-> [present |-> TRUE, cols |-> EmptyCols]]

NoConfig == [loaded |-> FALSE, preferences |-> DefaultPreferences]

EmptyStorage ==
    [layout |-> [present |-> FALSE, cols |-> EmptyCols],
     order |-> [present |-> FALSE, ids |-> <<>>]]

(***************************************************************************)
(* loadConfig and loadSavedPreferences.                                    *)
(***************************************************************************)
loadSavedPreferences(prefs, store) ==
    IF store.layout.present
    THEN [prefs EXCEPT !.columnLayout = [present |-> TRUE, cols |-> store.layout.cols]]
    ELSE IF store.order.present
         THEN [prefs EXCEPT !.columnOrder = [present |-> TRUE, ids |-> store.order.ids]]
         ELSE prefs

\* a variant that reads the local store also when config.json has loaded
loadConfigThenStore(ok, json, store) ==
    [loaded |-> TRUE,
     preferences |-> loadSavedPreferences(IF ok /\ json.hasPreferences THEN json.preferences
                                          ELSE DefaultPreferences, store)]

loadConfig(ok, json, store) ==
    IF ok
    THEN [loaded |-> TRUE,
          preferences |-> IF json.hasPreferences THEN json.preferences
                          ELSE DefaultPreferences]
    ELSE [loaded |-> TRUE,
          preferences |-> loadSavedPreferences(DefaultPreferences, store)]

(***************************************************************************)
(* The hierarchy builder of loadBookmarks.                                 *)
(***************************************************************************)
ListIdsOf(ls) == {ls[i].id : i \in DOMAIN ls}

RowIds(rows) == [i \in DOMAIN rows |-> rows[i].id]

BuildListsById(ls, bms) ==
    [id \in ListIdsOf(ls) |->
        LET IsChild(r) == r.parentId # Null /\ r.parentId \in ListIdsOf(ls)
                          /\ r.parentId = id
            IsOwned(b) == b.listId \in ListIdsOf(ls) /\ b.listId = id
        IN [children |-> RowIds(SelectSeq(ls, IsChild)),
            bookmarks |-> SelectSeq(bms, IsOwned)]]

\* a variant that looks one level down only
hasBookmarksOneLevel(byId, list) ==
    \/ Len(byId[list].bookmarks) > 0
    \/ \E i \in DOMAIN byId[list].children : Len(byId[byId[list].children[i]].bookmarks) > 0

RECURSIVE hasBookmarksInChildren(_, _)
hasBookmarksInChildren(byId, list) ==
    IF Len(byId[list].bookmarks) > 0 THEN TRUE
    ELSE \E i \in DOMAIN byId[list].children :
            hasBookmarksInChildren(byId, byId[list].children[i])

\* a variant that takes a list whose parent is not among the lists as a root
RootPoolAdopting(ls, byId) ==
    LET IsRoot(r) == r.parentId = Null \/ r.parentId \notin ListIdsOf(ls)
        HasContent(r) == Len(byId[r.id].bookmarks) > 0 \/ hasBookmarksInChildren(byId, r.id)
    IN RowIds(SelectSeq(SelectSeq(ls, IsRoot), HasContent))

RootPool(ls, byId) ==
    LET IsRoot(r) == r.parentId = Null
        HasContent(r) == Len(byId[r.id].bookmarks) > 0 \/ hasBookmarksInChildren(byId, r.id)
    IN RowIds(SelectSeq(SelectSeq(ls, IsRoot), HasContent))

(***************************************************************************)
(* Resolving saved ids against a Map of the pool: an id is taken the first *)
(* time it is met and deleted from the map; what is left keeps the map's   *)
(* insertion order.                                                        *)
(***************************************************************************)
\* a variant that never deletes a resolved id from the map
RECURSIVE ResolveNoDelete(_, _)
ResolveNoDelete(ids, avail) ==
    IF ids = <<>> THEN <<>>
    ELSE IF Head(ids) \in avail
         THEN <<Head(ids)>> \o ResolveNoDelete(Tail(ids), avail)
         ELSE ResolveNoDelete(Tail(ids), avail)

RECURSIVE Resolve(_, _)
Resolve(ids, avail) ==
    IF ids = <<>> THEN <<>>
    ELSE IF Head(ids) \in avail
         THEN <<Head(ids)>> \o Resolve(Tail(ids), avail \ {Head(ids)})
         ELSE Resolve(Tail(ids), avail)

Remaining(pool, used) ==
    LET Left(id) == id \notin used IN SelectSeq(pool, Left)

ApplyColumnOrder(pool, prefs) ==
    IF prefs.columnOrder.present /\ Len(prefs.columnOrder.ids) > 0
    THEN LET ordered == Resolve(prefs.columnOrder.ids, Range(pool))
         IN ordered \o Remaining(pool, Range(ordered))
    ELSE pool

\* a variant whose index counts from 1
RoundRobinFromOne(seq) ==
    [c \in ColumnIndexes |->
        LET Mine(i) == i % NUM_COLUMNS = c
            idx == SelectSeq([i \in 1..Len(seq) |-> i], Mine)
        IN [k \in 1..Len(idx) |-> seq[idx[k]]]]

\* columns[index % NUM_COLUMNS].push(list), index counting from 0
RoundRobin(seq) ==
    [c \in ColumnIndexes |->
        LET Mine(i) == (i - 1) % NUM_COLUMNS = c
            idx == SelectSeq([i \in 1..Len(seq) |-> i], Mine)
        IN [k \in 1..Len(idx) |-> seq[idx[k]]]]

RECURSIVE LayoutColumns(_, _, _)
LayoutColumns(cols, colIndex, avail) ==
    IF colIndex = NUM_COLUMNS THEN <<>>
    ELSE LET col == Resolve(cols[colIndex], avail)
         IN <<col>> \o LayoutColumns(cols, colIndex + 1, avail \ Range(col))

\* a variant that knows the flat order only, as before columnLayout existed
AssignByOrderOnly(pool, prefs) ==
    IF prefs.columnOrder.present /\ Len(prefs.columnOrder.ids) > 0
    THEN LET ordered == Resolve(prefs.columnOrder.ids, Range(pool))
         IN RoundRobin(ordered \o Remaining(pool, Range(ordered)))
    ELSE RoundRobin(pool)

AssignColumns(pool, prefs) ==
    IF prefs.columnLayout.present
    THEN LET placed == LayoutColumns(prefs.columnLayout.cols, 0, Range(pool))
             used == UNION {Range(placed[i]) : i \in DOMAIN placed}
             rest == RoundRobin(Remaining(pool, used))
         IN [c \in ColumnIndexes |-> placed[c + 1] \o rest[c]]
    ELSE IF prefs.columnOrder.present /\ Len(prefs.columnOrder.ids) > 0
         THEN LET ordered == Resolve(prefs.columnOrder.ids, Range(pool))
              IN RoundRobin(ordered \o Remaining(pool, Range(ordered)))
         ELSE RoundRobin(pool)

(***************************************************************************)
(* Rendering.  renderList yields the list containers of one subtree, each  *)
(* with its class level (0: list-section, 1 and 2: nested-list-1/2), the   *)
(* container it is nested in, its bookmark items and its nested lists.     *)
(***************************************************************************)
Or(a, b) == IF a # <<>> THEN a ELSE b

\* bookmark.asset?.sourceUrl
assetSourceUrl(bookmark) ==
    IF bookmark.asset.present THEN bookmark.asset.sourceUrl ELSE <<>>

\* a variant that prefers the crawled title
renderBookmarkCrawledFirst(bookmark) ==
    LET title == Or(bookmark.link_title, Or(bookmark.bookmark_title, Untitled))
        url == Or(bookmark.url, Or(assetSourceUrl(bookmark), Hash))
    IN [text |-> <<" ">> \o title \o <<" ">>, title |-> title, href |-> url]

renderBookmark(bookmark) ==
    LET title == Or(bookmark.bookmark_title, Or(bookmark.link_title, Untitled))
        url == Or(bookmark.url, Or(assetSourceUrl(bookmark), Hash))
    IN [text |-> <<" ">> \o title \o <<" ">>, title |-> title, href |-> url]

\* a variant that goes on counting levels
RECURSIVE renderListUnclamped(_, _, _, _)
renderListUnclamped(byId, list, level, parentEl) ==
    IF Len(byId[list].bookmarks) = 0 /\ ~hasBookmarksInChildren(byId, list) THEN {}
    ELSE LET Shown(c) == hasBookmarksInChildren(byId, c)
             kids == SelectSeq(byId[list].children, Shown)
         IN {[id |-> list, level |-> level, parent |-> parentEl, kids |-> kids,
              items |-> [k \in DOMAIN byId[list].bookmarks |->
                            renderBookmark(byId[list].bookmarks[k])]]}
            \cup UNION {renderListUnclamped(byId, kids[i], level + 1, list) : i \in DOMAIN kids}

RECURSIVE renderList(_, _, _, _)
renderList(byId, list, level, parentEl) ==
    IF Len(byId[list].bookmarks) = 0 /\ ~hasBookmarksInChildren(byId, list) THEN {}
    ELSE LET Shown(c) == hasBookmarksInChildren(byId, c)
             kids == SelectSeq(byId[list].children, Shown)
         IN {[id |-> list, level |-> level, parent |-> parentEl, kids |-> kids,
              items |-> [k \in DOMAIN byId[list].bookmarks |->
                            renderBookmark(byId[list].bookmarks[k])]]}
            \cup UNION {renderList(byId, kids[i], Min(level + 1, 2), list) : i \in DOMAIN kids}

ItemsOf(els) == UNION {{<<e.id, k>> : k \in DOMAIN e.items} : e \in els}

AllShown(els) ==
    [bookmark |-> [it \in ItemsOf(els) |-> ""],
     list |-> [id \in {e.id : e \in els} |-> ""],
     column |-> [c \in ColumnIndexes |-> ""]]

NoColumns == [c \in ColumnIndexes |-> <<>>]

NoSearch == [applied |-> FALSE, term |-> <<>>, hiddenBefore |-> FALSE]

NoTyping == [inputs |-> 0, sinceInput |-> 0, passes |-> 0, total |-> 0]

NoLoad == [config |-> "none", data |-> "none"]

NoCache == [lists |-> [status |-> 0], bookmarks |-> [status |-> 0]]

(***************************************************************************)
(* The hierarchy, read off the input rows by following parentId upwards.   *)
(***************************************************************************)
ParentOf(l) ==
    LET p == lists[CHOOSE i \in DOMAIN lists : lists[i].id = l].parentId
    IN IF p \in ListIdsOf(lists) THEN p ELSE Null

RECURSIVE AncestorsWithin(_, _)
AncestorsWithin(l, n) ==
    IF n = 0 \/ ParentOf(l) = Null THEN {}
    ELSE {ParentOf(l)} \cup AncestorsWithin(ParentOf(l), n - 1)

Ancestors(l) == AncestorsWithin(l, Len(lists))

OnCycle(l) == l \in Ancestors(l)

(***************************************************************************)
(* Startup: init awaits loadConfig, then initSQLite, which ends in         *)
(* loadBookmarks and renderLists.                                          *)
(***************************************************************************)
LoadConfig ==
    /\ pc = "start"
    /\ \E ok \in BOOLEAN :
          /\ config' = loadConfig(ok, configJson, localStorage)
          /\ loadedSeq' = IF ok THEN storedSeq.server
                          ELSE IF localStorage.layout.present THEN storedSeq.local ELSE 0
          /\ loadLog' = [loadLog EXCEPT !.config = IF ok THEN "ok" ELSE "unavailable"]
    /\ pc' = "config"
    /\ UNCHANGED <<configJson, localStorage, lists, bookmarksInLists, listsById,
                   rootLists, columns, rendered, display, dragOverColumn, requests,
                   saveSeq, storedSeq, afterDrag, lastSearch, debounceVars, cacheVars>>

\* a variant that first walks from every list up its parentId chain to the
\* root, a walk that does not end for a list on a cycle
LoadBookmarksWalkingUp ==
    /\ \A l \in ListIdsOf(lists) : ~OnCycle(l)
    /\ pc = "config"
    /\ LET byId == BuildListsById(lists, bookmarksInLists)
           pool == ApplyColumnOrder(RootPool(lists, byId), config.preferences)
           assigned == AssignColumns(pool, config.preferences)
           els == UNION {renderList(byId, pool[i], 0, Null) : i \in DOMAIN pool}
           IsCard(id) == \E e \in els : e.id = id /\ e.level = 0
       IN /\ listsById' = byId
          /\ rootLists' = pool
          /\ columns' = [c \in ColumnIndexes |-> SelectSeq(assigned[c], IsCard)]
          /\ rendered' = els
          /\ display' = AllShown(els)
    /\ pc' = "rendered"
    /\ dragOverColumn' = {}
    /\ lastSearch' = NoSearch
    /\ loadLog' = [loadLog EXCEPT !.data = "ok"]
    /\ UNCHANGED <<configJson, localStorage, lists, bookmarksInLists, config, requests,
                   saveSeq, storedSeq, loadedSeq, afterDrag, debounceVars, cacheVars>>

LoadBookmarks ==
    /\ pc = "config"
    /\ LET byId == BuildListsById(lists, bookmarksInLists)
           pool == ApplyColumnOrder(RootPool(lists, byId), config.preferences)
           assigned == AssignColumns(pool, config.preferences)
           els == UNION {renderList(byId, pool[i], 0, Null) : i \in DOMAIN pool}
           IsCard(id) == \E e \in els : e.id = id /\ e.level = 0
       IN /\ listsById' = byId
          /\ rootLists' = pool
          /\ columns' = [c \in ColumnIndexes |-> SelectSeq(assigned[c], IsCard)]
          /\ rendered' = els
          /\ display' = AllShown(els)
    /\ pc' = "rendered"
    /\ dragOverColumn' = {}
    /\ lastSearch' = NoSearch
    /\ loadLog' = [loadLog EXCEPT !.data = "ok"]
    /\ UNCHANGED <<configJson, localStorage, lists, bookmarksInLists, config, requests,
                   saveSeq, storedSeq, loadedSeq, afterDrag, debounceVars, cacheVars>>

(***************************************************************************)
(* Inputs.                                                                 *)
(***************************************************************************)
ListRow(id, parentId) == [id |-> id, parentId |-> parentId]

\* a row of the query has no asset property
NoAsset == [present |-> FALSE, sourceUrl |-> <<>>]

BookmarkRow(id, listId, t, lt, u) ==
    [id |-> id, listId |-> listId, bookmark_title |-> t, link_title |-> lt, url |-> u,
     asset |-> NoAsset]

PlainRow(id, listId) == BookmarkRow(id, listId, <<"a">>, <<>>, <<"b">>)

NoPreferencesJson == [hasPreferences |-> FALSE, preferences |-> DefaultPreferences]

InitPage ==
    /\ pc = "start"
    /\ config = NoConfig
    /\ listsById = <<>>
    /\ rootLists = <<>>
    /\ columns = NoColumns
    /\ rendered = {}
    /\ display = AllShown({})
    /\ dragOverColumn = {}
    /\ requests = <<>>
    /\ saveSeq = 0
    /\ storedSeq = [local |-> 0, server |-> 0]
    /\ loadedSeq = 0
    /\ afterDrag = NoColumns
    /\ lastSearch = NoSearch
    /\ searchValue = <<>>
    /\ timeout = Null
    /\ timers = {}
    /\ typing = NoTyping
    /\ reloadTimers = 0
    /\ loadLog = NoLoad

InitCommon == InitPage /\ cache = NoCache

\* any list rows (a parentId may be null, name any row, itself included, or name
\* no fetched row) and any bookmark rows (a listId may be null or unknown; one
\* bookmark may be a member of several lists)
InitHierarchy ==
    /\ InitCommon
    /\ configJson = NoPreferencesJson
    /\ localStorage = EmptyStorage
    /\ \E n \in 0..MaxLists :
          \E parent \in [1..n -> 0..(MaxLists + 1)] :
             lists = [i \in 1..n |-> ListRow(i, parent[i])]
    /\ \E m \in 0..MaxRows :
          \E b \in [1..m -> (1..MaxBookmarkIds) \X (0..(MaxLists + 1))] :
             bookmarksInLists = [i \in 1..m |-> PlainRow(b[i][1], b[i][2])]

NextHierarchy == LoadConfig \/ LoadBookmarks

Spec == InitHierarchy /\ [][NextHierarchy]_vars

OwnsBookmark(l) == \E k \in DOMAIN bookmarksInLists : bookmarksInLists[k].listId = l

SubtreeOwnsBookmark(l) ==
    \E d \in ListIdsOf(lists) : (d = l \/ l \in Ancestors(d)) /\ OwnsBookmark(d)

ColumnCards == UNION {Range(columns[c]) : c \in DOMAIN columns}

\* C6: hasBookmarksInChildren(list) is true exactly when the list or one of its
\* descendants, at any depth, owns a bookmark (for every list whose subtree is a
\* tree, i.e. that is not on a parentId cycle); and the root lists handed to the
\* column layout, and so the cards placed in the columns, are exactly the lists
\* without parentId for which it is true.
HasContentIsSubtreeOwnership ==
    pc = "rendered" =>
        /\ \A l \in ListIdsOf(lists) :
              ~OnCycle(l) => (hasBookmarksInChildren(listsById, l) <=> SubtreeOwnsBookmark(l))
        /\ Range(rootLists) =
              {lists[i].id : i \in {j \in DOMAIN lists :
                    lists[j].parentId = Null /\ SubtreeOwnsBookmark(lists[j].id)}}
        /\ ColumnCards = Range(rootLists)

\* C6 witness: a root list that owns nothing, with a child that owns nothing, is
\* in the pool and in a column because of a grandchild's bookmark.
HasContentWitness ==
    /\ pc = "rendered"
    /\ \E r, c, g \in ListIdsOf(lists) :
          /\ ParentOf(g) = c /\ ParentOf(c) = r /\ lists[r].parentId = Null
          /\ ~OwnsBookmark(r) /\ ~OwnsBookmark(c) /\ OwnsBookmark(g)
          /\ hasBookmarksInChildren(listsById, r)
          /\ r \in ColumnCards

\* C7 (as claimed): every bookmark whose listId resolves to a known list is in
\* exactly one list's bookmark set, also when the rows associate it with several
\* lists; a bookmark row whose listId is missing or unknown is in no list.
SingleOwnership ==
    pc = "rendered" =>
        /\ \A k \in DOMAIN bookmarksInLists :
              bookmarksInLists[k].listId \in ListIdsOf(lists) =>
                 Cardinality({l \in DOMAIN listsById :
                    \E j \in DOMAIN listsById[l].bookmarks :
                       listsById[l].bookmarks[j].id = bookmarksInLists[k].id}) = 1
        /\ \A l \in DOMAIN listsById : \A j \in DOMAIN listsById[l].bookmarks :
              listsById[l].bookmarks[j].listId = l

(***************************************************************************)
(* Column layout: a pool of root lists with unique ids, each owning one    *)
(* bookmark, and any saved preferences in config.json: columnLayout and    *)
(* columnOrder each present or absent, naming pool ids and ids that no     *)
(* longer exist, with repeats, and with a saved column index >= N.         *)
(***************************************************************************)
SavedIds == 1..(MaxPool + 1)

LayoutFrom(entries) ==
    [key \in LayoutKeys |->
        LET Here(e) == e[1] = key
            mine == SelectSeq(entries, Here)
        IN [k \in DOMAIN mine |-> mine[k][2]]]

LayoutInputs == {LayoutFrom(entries) : entries \in SeqsUpTo(LayoutKeys \X SavedIds, MaxSaved)}

PreferenceInputs ==
    {[columnOrder |-> o, columnLayout |-> l] :
        o \in {[present |-> FALSE, ids |-> <<>>]}
              \cup {[present |-> TRUE, ids |-> ids] : ids \in SeqsUpTo(SavedIds, MaxOrder)},
        l \in {[present |-> FALSE, cols |-> EmptyCols]}
              \cup {[present |-> TRUE, cols |-> cols] : cols \in LayoutInputs}}

RootsWithOneBookmark(n) ==
    /\ lists = [i \in 1..n |-> ListRow(i, Null)]
    /\ bookmarksInLists = [i \in 1..n |-> PlainRow(i, i)]

InitColumns ==
    /\ InitCommon
    /\ localStorage = EmptyStorage
    /\ \E n \in 0..MaxPool : RootsWithOneBookmark(n)
    /\ \E prefs \in PreferenceInputs :
          configJson = [hasPreferences |-> TRUE, preferences |-> prefs]

NextColumns == LoadConfig \/ LoadBookmarks

SpecColumns == InitColumns /\ [][NextColumns]_vars

Occurrences(id) ==
    Cardinality({<<c, k>> \in ColumnIndexes \X (1..Len(lists)) :
                    k \in DOMAIN columns[c] /\ columns[c][k] = id})

TotalCards == Cardinality({<<c, k>> \in ColumnIndexes \X (1..(Len(lists) + MaxSaved + 1)) :
                              k \in DOMAIN columns[c]})

\* C1: whatever the saved preferences, renderLists yields exactly NUM_COLUMNS
\* columns and every root list of the pool is in exactly one column exactly once,
\* with nothing else in the columns.
ColumnPartition ==
    pc = "rendered" =>
        /\ DOMAIN columns = ColumnIndexes
        /\ \A id \in ListIdsOf(lists) : Occurrences(id) = 1
        /\ TotalCards = Len(lists)

\* C1 witness: a full pool laid out from a saved layout that repeats an id, names
\* an id that no longer exists and has an entry under a column index >= N.
ColumnPartitionWitness ==
    /\ pc = "rendered"
    /\ Len(lists) = MaxPool
    /\ config.preferences.columnLayout.present
    /\ LET cols == config.preferences.columnLayout.cols
       IN \/ \E c \in ColumnIndexes : Len(cols[c]) = 2 /\ cols[c][1] = cols[c][2]
                                        /\ cols[c][1] \in ListIdsOf(lists)
          \/ \E c \in ColumnIndexes : Len(cols[c]) = 1 /\ cols[c][1] \in ListIdsOf(lists)
                                        /\ cols[NUM_COLUMNS] = cols[c]

\* C2 (as claimed): when columnLayout is present (here: it names at least one
\* root list) and columnOrder is present too, the columns are those that
\* columnLayout alone gives; columnOrder has no influence, also not on where the
\* lists missing from columnLayout are placed.
LayoutAloneDecides ==
    (/\ pc = "rendered"
     /\ config.preferences.columnLayout.present
     /\ \E c \in ColumnIndexes :
           Range(config.preferences.columnLayout.cols[c]) \cap ListIdsOf(lists) # {}
     /\ config.preferences.columnOrder.present)
    => columns = AssignColumns(RootPool(lists, listsById),
                    [config.preferences EXCEPT !.columnOrder = [present |-> FALSE, ids |-> <<>>]])

\* C21 (as claimed): with a saved layout, the root lists named in no saved
\* column are appended in the default order of the lists, the k-th of them (k
\* from 0) at the end of column k mod N, whatever the sizes of the columns.
UnplacedInDefaultOrder ==
    (pc = "rendered" /\ config.preferences.columnLayout.present) =>
        LET pool == RootPool(lists, listsById)
            cols == config.preferences.columnLayout.cols
            named == UNION {Range(cols[c]) : c \in ColumnIndexes}
            unplaced == Remaining(pool, named)
        IN \A k \in DOMAIN unplaced :
              LET col == columns[(k - 1) % NUM_COLUMNS]
                  later == Cardinality({j \in DOMAIN unplaced :
                              j > k /\ (j - 1) % NUM_COLUMNS = (k - 1) % NUM_COLUMNS})
              IN Len(col) > later /\ col[Len(col) - later] = unplaced[k]

MaxStored == 1

StoredLayouts == {LayoutFrom(entries) : entries \in SeqsUpTo(LayoutKeys \X SavedIds, MaxStored)}

StoreInputs ==
    {[layout |-> l, order |-> o] :
        l \in {[present |-> FALSE, cols |-> EmptyCols]}
              \cup {[present |-> TRUE, cols |-> cols] : cols \in StoredLayouts},
        o \in {[present |-> FALSE, ids |-> <<>>]}
              \cup {[present |-> TRUE, ids |-> ids] : ids \in SeqsUpTo(SavedIds, MaxStored)}}

ServedPreferences ==
    {NoPreferencesJson,
     [hasPreferences |-> TRUE,
      preferences |-> [columnOrder |-> [present |-> TRUE, ids |-> <<2, 1>>],
                       columnLayout |-> [present |-> FALSE, cols |-> EmptyCols]]],
     [hasPreferences |-> TRUE,
      preferences |-> [columnOrder |-> [present |-> TRUE, ids |-> <<>>],
                       columnLayout |-> [present |-> TRUE, cols |-> LayoutFrom(<<<<2, 1>>>>)]]]}

InitConfig ==
    /\ InitCommon
    /\ configJson \in ServedPreferences
    /\ localStorage \in StoreInputs
    /\ RootsWithOneBookmark(2)

NextConfig == LoadConfig \/ LoadBookmarks

SpecConfig == InitConfig /\ [][NextConfig]_vars

\* C14: when config.json loads, the preferences are those it carries (the
\* defaults when it carries none), whatever the local store holds; when it does
\* not load, the preferences are the defaults with the stored layout, if there is
\* one, and else with the stored flat order, if there is one, and the columns
\* are laid out from that.
RemoteConfigIsAuthoritative ==
    pc \in {"config", "rendered"} =>
        /\ loadLog.config = "ok" =>
              config.preferences = IF configJson.hasPreferences THEN configJson.preferences
                                   ELSE DefaultPreferences
        /\ (loadLog.config = "unavailable" /\ localStorage.layout.present) =>
              /\ config.preferences.columnLayout = localStorage.layout
              /\ config.preferences.columnOrder = DefaultPreferences.columnOrder
              /\ pc = "rendered" =>
                    columns = AssignColumns(RootPool(lists, listsById),
                                 [columnLayout |-> localStorage.layout,
                                  columnOrder |-> [present |-> FALSE, ids |-> <<>>]])
        /\ (loadLog.config = "unavailable" /\ ~localStorage.layout.present) =>
              /\ config.preferences.columnLayout = DefaultPreferences.columnLayout
              /\ config.preferences.columnOrder =
                    IF localStorage.order.present THEN localStorage.order
                    ELSE DefaultPreferences.columnOrder

\* C14 witness: config.json did not load, the local store holds a layout that
\* puts list 2 in the last column and a flat order naming list 2, and the page
\* shows list 2 in the last column.
RemoteConfigWitness ==
    /\ pc = "rendered" /\ loadLog.config = "unavailable"
    /\ configJson.hasPreferences
    /\ localStorage.layout.present /\ localStorage.layout.cols[NUM_COLUMNS - 1] = <<2>>
    /\ localStorage.order.present /\ localStorage.order.ids = <<2>>
    /\ columns[NUM_COLUMNS - 1] = <<2>> /\ columns[0] = <<1>>

\* C17 (as claimed): when config.json is not available (non-success answer or
\* failed fetch), no bookmark data is loaded and no layout is rendered.
MissingConfigIsFatal ==
    loadLog.config = "unavailable" =>
        /\ pc # "rendered" /\ loadLog.data = "none"
        /\ listsById = <<>> /\ rendered = {} /\ columns = NoColumns

(***************************************************************************)
(* Drag and drop.  A card is dragged from one place to another (the same   *)
(* place included); Sortable fires onAdd on the receiving column and       *)
(* onRemove on the column left when they differ, then onEnd, which calls   *)
(* saveColumnOrder: it reads the layout back from the cards in the DOM,    *)
(* updates config.preferences, writes the local store and posts the        *)
(* preferences.  The response only logs.                                   *)
(***************************************************************************)
RemoveAt(s, i) == SubSeq(s, 1, i - 1) \o SubSeq(s, i + 1, Len(s))

InsertAt(s, i, x) == SubSeq(s, 1, i - 1) \o <<x>> \o SubSeq(s, i, Len(s))

MoveCard(cols, from, i, to, j) ==
    LET lifted == [cols EXCEPT ![from] = RemoveAt(@, i)]
    IN [lifted EXCEPT ![to] = InsertAt(@, j, cols[from][i])]

\* a variant that walks the columns from the last to the first
RECURSIVE FlatOrderBackwards(_, _)
FlatOrderBackwards(columnLayout, i) ==
    IF i = NUM_COLUMNS THEN <<>>
    ELSE FlatOrderBackwards(columnLayout, i + 1) \o columnLayout[i]

RECURSIVE FlatOrder(_, _)
FlatOrder(columnLayout, i) ==
    IF i = NUM_COLUMNS THEN <<>> ELSE columnLayout[i] \o FlatOrder(columnLayout, i + 1)

ElementOf(id) == CHOOSE e \in rendered : e.id = id

\* the list containers inside a column, in document order: each card is
\* followed by the lists nested in it
RECURSIVE ContainersIn(_)
ContainersIn(ids) ==
    IF ids = <<>> THEN <<>>
    ELSE <<Head(ids)>> \o ContainersIn(ElementOf(Head(ids)).kids) \o ContainersIn(Tail(ids))

\* column.querySelectorAll('.list-section'): renderList gives that class to the
\* containers of level 0 only
ListSections(col) ==
    LET IsListSection(id) == ElementOf(id).level = 0
    IN SelectSeq(ContainersIn(col), IsListSection)

\* a variant that selects every list container of the column
saveColumnOrderOfAllLists(cols) ==
    LET columnLayout == [key \in LayoutKeys |->
                            IF key \in ColumnIndexes THEN ContainersIn(cols[key]) ELSE <<>>]
    IN [columnOrder |-> [present |-> TRUE, ids |-> FlatOrder(columnLayout, 0)],
        columnLayout |-> [present |-> TRUE, cols |-> columnLayout]]

saveColumnOrder(cols) ==
    LET columnLayout == [key \in LayoutKeys |->
                            IF key \in ColumnIndexes THEN ListSections(cols[key]) ELSE <<>>]
    IN [columnOrder |-> [present |-> TRUE, ids |-> FlatOrder(columnLayout, 0)],
        columnLayout |-> [present |-> TRUE, cols |-> columnLayout]]

\* a variant in which a save replaces the saves still in flight
DragEndCoalescing ==
    /\ pc = "rendered"
    /\ saveSeq < MaxDrags
    /\ Len(requests) < MaxInflight
    /\ \E from \in ColumnIndexes, to \in ColumnIndexes :
          \E i \in DOMAIN columns[from] :
             \E j \in 1..(Len(columns[to]) + 1) :
                /\ display.column[from] = ""
                /\ display.list[columns[from][i]] = ""
                /\ display.column[to] = ""
                /\ from = to => j <= Len(columns[to])
                /\ LET moved == MoveCard(columns, from, i, to, j)
                       prefs == saveColumnOrder(moved)
                   IN /\ columns' = moved
                      /\ dragOverColumn' = IF from # to
                                           THEN (dragOverColumn \cup {to}) \ {from}
                                           ELSE dragOverColumn
                      /\ config' = [config EXCEPT !.preferences = prefs]
                      /\ localStorage' = [layout |-> prefs.columnLayout,
                                          order |-> prefs.columnOrder]
                      /\ requests' = <<[body |-> prefs, seq |-> saveSeq + 1]>>
                      /\ afterDrag' = moved
    /\ saveSeq' = saveSeq + 1
    /\ storedSeq' = [storedSeq EXCEPT !.local = saveSeq + 1]
    /\ UNCHANGED <<configJson, lists, bookmarksInLists, pc, listsById, rootLists,
                   rendered, display, loadedSeq, lastSearch, debounceVars, cacheVars,
                   loadLog>>

DragEnd ==
    /\ pc = "rendered"
    /\ saveSeq < MaxDrags
    /\ Len(requests) < MaxInflight
    /\ \E from \in ColumnIndexes, to \in ColumnIndexes :
          \E i \in DOMAIN columns[from] :
             \E j \in 1..(Len(columns[to]) + 1) :
                /\ display.column[from] = ""
                /\ display.list[columns[from][i]] = ""
                /\ display.column[to] = ""
                /\ from = to => j <= Len(columns[to])
                /\ LET moved == MoveCard(columns, from, i, to, j)
                       prefs == saveColumnOrder(moved)
                   IN /\ columns' = moved
                      /\ dragOverColumn' = IF from # to
                                           THEN (dragOverColumn \cup {to}) \ {from}
                                           ELSE dragOverColumn
                      /\ config' = [config EXCEPT !.preferences = prefs]
                      /\ localStorage' = [layout |-> prefs.columnLayout,
                                          order |-> prefs.columnOrder]
                      /\ requests' = Append(requests, [body |-> prefs, seq |-> saveSeq + 1])
                      /\ afterDrag' = moved
    /\ saveSeq' = saveSeq + 1
    /\ storedSeq' = [storedSeq EXCEPT !.local = saveSeq + 1]
    /\ UNCHANGED <<configJson, lists, bookmarksInLists, pc, listsById, rootLists,
                   rendered, display, loadedSeq, lastSearch, debounceVars, cacheVars,
                   loadLog>>

\* the server side of POST /api/preferences: the body becomes the preferences
\* that config.json serves
ServerStore(json, body) == [hasPreferences |-> TRUE, preferences |-> body]

\* a variant that puts the cards back where the page load had them when the
\* save fails
SaveResponseRollingBack ==
    /\ requests # <<>>
    /\ \E i \in DOMAIN requests, ok \in BOOLEAN :
          /\ requests' = RemoveAt(requests, i)
          /\ configJson' = IF ok THEN ServerStore(configJson, requests[i].body) ELSE configJson
          /\ storedSeq' = IF ok THEN [storedSeq EXCEPT !.server = requests[i].seq] ELSE storedSeq
          /\ columns' = IF ok THEN columns ELSE RoundRobin(rootLists)
    /\ UNCHANGED <<localStorage, lists, bookmarksInLists, pc, config, listsById, rootLists,
                   rendered, display, dragOverColumn, saveSeq, loadedSeq,
                   afterDrag, lastSearch, debounceVars, cacheVars, loadLog>>

SaveResponse ==
    /\ requests # <<>>
    /\ \E i \in DOMAIN requests, ok \in BOOLEAN :
          /\ requests' = RemoveAt(requests, i)
          /\ configJson' = IF ok THEN ServerStore(configJson, requests[i].body) ELSE configJson
          /\ storedSeq' = IF ok THEN [storedSeq EXCEPT !.server = requests[i].seq] ELSE storedSeq
    /\ UNCHANGED <<localStorage, lists, bookmarksInLists, pc, config, listsById, rootLists,
                   columns, rendered, display, dragOverColumn, saveSeq, loadedSeq,
                   afterDrag, lastSearch, debounceVars, cacheVars, loadLog>>

\* the page is loaded again: the script starts from its initial global state
Reload ==
    /\ pc = "rendered"
    /\ pc' = "start"
    /\ config' = NoConfig
    /\ listsById' = <<>>
    /\ rootLists' = <<>>
    /\ columns' = NoColumns
    /\ rendered' = {}
    /\ display' = AllShown({})
    /\ dragOverColumn' = {}
    /\ loadedSeq' = 0
    /\ lastSearch' = NoSearch
    /\ searchValue' = <<>>
    /\ timeout' = Null
    /\ timers' = {}
    /\ typing' = NoTyping
    /\ reloadTimers' = 0
    /\ loadLog' = NoLoad
    /\ UNCHANGED <<configJson, localStorage, lists, bookmarksInLists, requests, saveSeq,
                   storedSeq, afterDrag, cache>>

InitReorder ==
    /\ InitCommon
    /\ configJson = NoPreferencesJson
    /\ localStorage = EmptyStorage
    /\ \E n \in 1..MaxCards : RootsWithOneBookmark(n)

NextReorder == LoadConfig \/ LoadBookmarks \/ DragEnd \/ SaveResponse \/ Reload

SpecReorder == InitReorder /\ [][NextReorder]_vars

\* C3: after a drag was saved, a reload that reads the preferences of that save
\* (from the local store, or from config.json once the server stored them), with
\* the same root lists, shows in every column exactly the sequence of cards that
\* was shown right after the drag.
ReorderRoundTrip ==
    (pc = "rendered" /\ saveSeq > 0 /\ loadedSeq = saveSeq) => columns = afterDrag

\* C3 witness: list 2 was dragged before list 1 into the same column, and the page
\* was reloaded with the layout of that save.
ReorderRoundTripWitness ==
    /\ pc = "rendered" /\ saveSeq > 0 /\ loadedSeq = saveSeq
    /\ \E c \in ColumnIndexes : afterDrag[c] = <<2, 1>> /\ columns[c] = <<2, 1>>

\* the drag step: Sortable's onEnd ran saveColumnOrder
Dropped == saveSeq' = saveSeq + 1

\* C11 (as claimed): a drag that ends with the card where it was (dropped on its
\* own position, or outside every column, where Sortable puts it back) changes
\* neither the columns nor the preferences in memory, and writes nothing: the
\* local store is as before and no request is sent.
NoOpDropIsSilent ==
    [][(Dropped /\ columns' = columns)
       => (config' = config /\ localStorage' = localStorage /\ requests' = requests)]_vars

\* the step in which a save request ends without the server storing it
SaveFailed == Len(requests') < Len(requests) /\ storedSeq'.server = storedSeq.server

\* C12: when the POST of saveColumnOrder fails (rejected, or answered with a
\* non-success status), the page stays as it is: no error state, the columns and
\* config.preferences keep the layout of the drag, and nothing is written again
\* (the request is gone, no new request, the local store untouched).
SaveFailureIsSwallowed ==
    [][SaveFailed
       => /\ pc' = pc /\ rendered' = rendered /\ display' = display
          /\ columns' = columns /\ config' = config
          /\ \E i \in DOMAIN requests : requests' = RemoveAt(requests, i)
          /\ localStorage' = localStorage /\ saveSeq' = saveSeq]_vars

\* C12 witness: list 2 was dragged before list 1, the save failed, and the page
\* still shows and holds the layout of the drag.
SaveFailureWitness ==
    /\ pc = "rendered" /\ saveSeq = 1 /\ requests = <<>> /\ storedSeq.server = 0
    /\ loadedSeq = 0
    /\ \E c \in ColumnIndexes :
          /\ columns[c] = <<2, 1>>
          /\ config.preferences.columnLayout.cols[c] = <<2, 1>>

\* the step that renders the page after a reload, the last save having failed
RenderedAfterFailedSave ==
    /\ pc = "config" /\ pc' = "rendered"
    /\ saveSeq > 0 /\ requests = <<>> /\ storedSeq.server < saveSeq

\* C13 (as claimed): every save writes the column layout and the flat order to
\* the local store, with the request not sent before; and when the request of
\* the last save failed, the next page load shows the layout of that drag.
DurableFallback ==
    [][/\ Dropped => /\ localStorage'.layout = config'.preferences.columnLayout
                     /\ localStorage'.order = config'.preferences.columnOrder
                     /\ localStorage'.layout.present /\ localStorage'.order.present
                     /\ storedSeq'.local = saveSeq'
       /\ RenderedAfterFailedSave => columns' = afterDrag]_vars

RECURSIVE CardsBefore(_, _)
CardsBefore(cols, c) == IF c = 0 THEN 0 ELSE CardsBefore(cols, c - 1) + Len(cols[c - 1])

\* order is cols[0], cols[1], ..., cols[N-1] one after the other
IsConcatenation(order, cols) ==
    /\ Len(order) = CardsBefore(cols, NUM_COLUMNS)
    /\ \A c \in ColumnIndexes : \A k \in DOMAIN cols[c] :
          order[CardsBefore(cols, c) + k] = cols[c][k]

\* C15: after every save, config.preferences, the local store and the body of
\* the request sent hold the layout of the columns as shown and a columnOrder
\* that is columnLayout[0], ..., columnLayout[N-1] concatenated; the body is the
\* whole preference object, columnOrder and columnLayout.
DerivedFlatOrder ==
    [][Dropped =>
          LET prefs == config'.preferences
              sent == requests'[Len(requests')].body
          IN /\ prefs.columnLayout.present /\ prefs.columnOrder.present
             /\ \A c \in ColumnIndexes : prefs.columnLayout.cols[c] = columns'[c]
             /\ IsConcatenation(prefs.columnOrder.ids, prefs.columnLayout.cols)
             /\ localStorage'.layout = prefs.columnLayout
             /\ localStorage'.order = prefs.columnOrder
             /\ Len(requests') = Len(requests) + 1
             /\ sent = prefs]_vars

\* C15 witness: list 1 was dragged behind list 2 into a later column; the saved
\* flat order is 2, 1 in memory, in the local store and in the request.
DerivedFlatOrderWitness ==
    /\ pc = "rendered" /\ saveSeq > 0
    /\ columns[1] = <<2>> /\ columns[2] = <<1>>
    /\ config.preferences.columnOrder.ids = <<2, 1>>
    /\ localStorage.order.ids = <<2, 1>>
    /\ requests # <<>> /\ requests[1].body.columnOrder.ids = <<2, 1>>
    /\ requests[1].body.columnLayout.cols[2] = <<1>>

\* C23 (as claimed): a column carries the drag highlight (the class
\* drag-over-column) only while a drag gesture is in progress; in every state in
\* which no gesture is active, so after every drop, no column carries it.
NoHighlightAtRest ==
    pc = "rendered" => dragOverColumn = {}

(***************************************************************************)
(* Search.  The DOM queries of filterBookmarks: the .list-section cards,   *)
(* the nested lists and the bookmark items inside a container              *)
(* (querySelectorAll is deep: it yields the descendants at every depth).   *)
(***************************************************************************)
RECURSIVE ContainersOf(_)
ContainersOf(id) ==
    LET p == ElementOf(id).parent
    IN IF p = Null THEN {} ELSE {p} \cup ContainersOf(p)

Cards == {e.id : e \in {x \in rendered : x.level = 0}}

NestedLists(list) ==
    {e.id : e \in {x \in rendered : x.level \in {1, 2} /\ list \in ContainersOf(x.id)}}

SectionItems(list) ==
    ItemsOf({x \in rendered : x.id = list \/ list \in ContainersOf(x.id)})

ItemAt(it) == ElementOf(it[1]).items[it[2]]

\* a variant that looks at the title attribute only
matchesTitleOnly(item, searchTerm) == includes(toLowerCase(item.title), searchTerm)

matches(item, searchTerm) ==
    \/ includes(toLowerCase(item.text), searchTerm)
    \/ includes(toLowerCase(item.title), searchTerm)
    \/ includes(toLowerCase(item.href), searchTerm)

Shown(flag) == IF flag THEN "" ELSE "none"

\* a variant that resets the lists and bookmarks but not the columns
ResetListsOnly ==
    [bookmark |-> [it \in DOMAIN display.bookmark |->
                      IF \E list \in Cards : it \in SectionItems(list)
                      THEN "" ELSE display.bookmark[it]],
     list |-> [id \in DOMAIN display.list |->
                  IF id \in Cards \/ \E list \in Cards : id \in NestedLists(list)
                  THEN "" ELSE display.list[id]],
     column |-> display.column]

ResetDisplay ==
    [bookmark |-> [it \in DOMAIN display.bookmark |->
                      IF \E list \in Cards : it \in SectionItems(list)
                      THEN "" ELSE display.bookmark[it]],
     list |-> [id \in DOMAIN display.list |->
                  IF id \in Cards \/ \E list \in Cards : id \in NestedLists(list)
                  THEN "" ELSE display.list[id]],
     column |-> [c \in ColumnIndexes |-> ""]]

\* a variant that looks at the bookmarks the nested list owns directly
hasVisibleOwnBookmarks(nestedList, searchTerm) ==
    \E k \in DOMAIN ElementOf(nestedList).items :
        matches(ElementOf(nestedList).items[k], searchTerm)

hasVisibleNestedBookmarks(nestedList, searchTerm) ==
    \E it \in SectionItems(nestedList) : matches(ItemAt(it), searchTerm)

\* a variant in which only the card's own bookmarks set the flag
hasVisibleDirectBookmarks(list, searchTerm) ==
    \E k \in DOMAIN ElementOf(list).items : matches(ElementOf(list).items[k], searchTerm)

hasVisibleBookmarks(list, searchTerm) ==
    \/ \E it \in SectionItems(list) : matches(ItemAt(it), searchTerm)
    \/ \E nestedList \in NestedLists(list) : hasVisibleNestedBookmarks(nestedList, searchTerm)

BookmarkDisplay(searchTerm) ==
    [it \in DOMAIN display.bookmark |->
        IF \E list \in Cards : it \in SectionItems(list)
        THEN Shown(matches(ItemAt(it), searchTerm))
        ELSE display.bookmark[it]]

ListDisplay(searchTerm) ==
    [id \in DOMAIN display.list |->
        IF id \in Cards THEN Shown(hasVisibleBookmarks(id, searchTerm))
        ELSE IF \E list \in Cards : id \in NestedLists(list)
             THEN Shown(hasVisibleNestedBookmarks(id, searchTerm))
             ELSE display.list[id]]

\* a variant that shows every column that holds a card
ColumnDisplayAnyCard(searchTerm) ==
    [c \in ColumnIndexes |-> Shown(columns[c] # <<>>)]

ColumnDisplay(searchTerm) ==
    [c \in ColumnIndexes |->
        Shown(\E k \in DOMAIN columns[c] :
                 columns[c][k] \in Cards /\ hasVisibleBookmarks(columns[c][k], searchTerm))]

filterBookmarks(searchTerm) ==
    IF searchTerm = <<>> THEN ResetDisplay
    ELSE [bookmark |-> BookmarkDisplay(searchTerm),
          list |-> ListDisplay(searchTerm),
          column |-> ColumnDisplay(searchTerm)]

\* a bookmark, a list container and a column are hidden
SomeOfEachHidden ==
    \A kind \in {"bookmark", "list", "column"} :
        \E x \in DOMAIN display[kind] : display[kind][x] = "none"

TypedTexts == SeqsUpTo({"a", "A", " "}, MaxQueryLen)

\* a variant that also moves the cards it hides to the end of their column
SearchInputSortingHidden ==
    /\ pc = "rendered"
    /\ \E value \in TypedTexts :
          LET searchTerm == trim(toLowerCase(value))
              shown == filterBookmarks(searchTerm)
              Visible(id) == shown.list[id] = ""
              Hidden(id) == shown.list[id] = "none"
          IN /\ display' = shown
             /\ columns' = [c \in ColumnIndexes |->
                               SelectSeq(columns[c], Visible) \o SelectSeq(columns[c], Hidden)]
             /\ lastSearch' = [applied |-> TRUE, term |-> searchTerm,
                               hiddenBefore |-> SomeOfEachHidden]
    /\ UNCHANGED <<configJson, localStorage, lists, bookmarksInLists, pc, config,
                   listsById, rootLists, rendered, dragOverColumn, requests,
                   saveSeq, storedSeq, loadedSeq, afterDrag, debounceVars, cacheVars,
                   loadLog>>

\* the input listener, once the debounce delay has passed
SearchInput ==
    /\ pc = "rendered"
    /\ \E value \in TypedTexts :
          LET searchTerm == trim(toLowerCase(value))
          IN /\ display' = filterBookmarks(searchTerm)
             /\ lastSearch' = [applied |-> TRUE, term |-> searchTerm,
                               hiddenBefore |-> SomeOfEachHidden]
    /\ UNCHANGED <<configJson, localStorage, lists, bookmarksInLists, pc, config,
                   listsById, rootLists, columns, rendered, dragOverColumn, requests,
                   saveSeq, storedSeq, loadedSeq, afterDrag, debounceVars, cacheVars,
                   loadLog>>

\* bookmarks to search: matched by the title only, by the url only
\* (the title falling back to the crawled one), by nothing typed here
SearchContents ==
    <<[t |-> <<"A", "b">>, lt |-> <<>>, u |-> <<"b">>],
      [t |-> <<>>, lt |-> <<"b">>, u |-> <<"a", "a">>],
      [t |-> <<"b">>, lt |-> <<"a">>, u |-> <<>>]>>

\* a forest of lists (any depth) with bookmarks anywhere in it
InitSearch ==
    /\ InitCommon
    /\ configJson = NoPreferencesJson
    /\ localStorage = EmptyStorage
    /\ \E n \in 1..MaxSearchLists :
          /\ \E parent \in [1..n -> 0..(n - 1)] :
                /\ \A i \in 1..n : parent[i] < i
                /\ lists = [i \in 1..n |-> ListRow(i, parent[i])]
          /\ \E m \in 0..MaxSearchRows :
                \E b \in [1..m -> (1..n) \X DOMAIN SearchContents] :
                   bookmarksInLists =
                      [i \in 1..m |-> BookmarkRow(i, b[i][1], SearchContents[b[i][2]].t,
                                         SearchContents[b[i][2]].lt, SearchContents[b[i][2]].u)]

NextSearch == LoadConfig \/ LoadBookmarks \/ SearchInput

SpecSearch == InitSearch /\ [][NextSearch]_vars

(***************************************************************************)
(* The debounced input listener.  Time is counted in steps of 100 ms.      *)
(* Every input event clears the timer the closure holds and sets a new one *)
(* of Wait; a timer that is due runs before more time passes; when it      *)
(* runs, it clears the held timer and calls the listener, which reads the  *)
(* value the search box has then.                                          *)
(***************************************************************************)
Wait == 3

MaxInputs == 3
MaxIdle == 4

\* a variant that clears nothing
clearNothing(pending, handle) == pending

clearTimeout(pending, handle) == {t \in pending : t.id # handle}

setTimeout(pending, handle, wait) == pending \cup {[id |-> handle, left |-> wait]}

InputEvent ==
    /\ pc = "rendered"
    /\ typing.inputs < MaxInputs
    /\ \E value \in TypedTexts :
          /\ value # searchValue
          /\ searchValue' = value
    /\ timeout' = typing.inputs + 1
    /\ timers' = setTimeout(clearTimeout(timers, timeout), typing.inputs + 1, Wait)
    /\ typing' = [typing EXCEPT !.inputs = @ + 1, !.sinceInput = 0, !.passes = 0]
    /\ UNCHANGED <<configJson, localStorage, lists, bookmarksInLists, pc, config,
                   listsById, rootLists, columns, rendered, display, dragOverColumn,
                   requests, saveSeq, storedSeq, loadedSeq, afterDrag, lastSearch,
                   cacheVars, loadLog>>

TimePasses ==
    /\ pc = "rendered"
    /\ typing.sinceInput < MaxIdle
    /\ \A t \in timers : t.left > 0
    /\ timers' = {[t EXCEPT !.left = @ - 1] : t \in timers}
    /\ typing' = [typing EXCEPT !.sinceInput = @ + 1]
    /\ UNCHANGED <<configJson, localStorage, lists, bookmarksInLists, pc, config,
                   listsById, rootLists, columns, rendered, display, dragOverColumn,
                   requests, saveSeq, storedSeq, loadedSeq, afterDrag, lastSearch,
                   searchValue, timeout, cacheVars, loadLog>>

TimerFires ==
    /\ pc = "rendered"
    /\ \E t \in timers :
          /\ t.left = 0
          /\ timers' = clearTimeout(timers \ {t}, timeout)
    /\ LET searchTerm == trim(toLowerCase(searchValue))
       IN /\ display' = filterBookmarks(searchTerm)
          /\ lastSearch' = [applied |-> TRUE, term |-> searchTerm,
                            hiddenBefore |-> SomeOfEachHidden]
    /\ typing' = [typing EXCEPT !.passes = @ + 1, !.total = @ + 1]
    /\ UNCHANGED <<configJson, localStorage, lists, bookmarksInLists, pc, config,
                   listsById, rootLists, columns, rendered, dragOverColumn, requests,
                   saveSeq, storedSeq, loadedSeq, afterDrag, searchValue, timeout,
                   cacheVars, loadLog>>

\* two root lists with one bookmark each
InitDebounce ==
    /\ InitCommon
    /\ configJson = NoPreferencesJson
    /\ localStorage = EmptyStorage
    /\ lists = [i \in 1..2 |-> ListRow(i, Null)]
    /\ bookmarksInLists =
          [i \in 1..2 |-> BookmarkRow(i, i, SearchContents[i].t, SearchContents[i].lt,
                             SearchContents[i].u)]

NextDebounce == LoadConfig \/ LoadBookmarks \/ InputEvent \/ TimePasses \/ TimerFires

SpecDebounce == InitDebounce /\ [][NextDebounce]_vars

\* C16: a filter pass runs only when Wait (300 ms) has passed since the last
\* input event, it is the only pass since that event and it filters by the value
\* the box has then; at most one pass is pending, that of the last input event,
\* and it does not get lost: once no pass is pending, one has run.
DebouncedSearch ==
    [][/\ typing'.passes > typing.passes =>
             /\ typing.sinceInput >= Wait
             /\ typing'.passes = 1
             /\ lastSearch'.term = trim(toLowerCase(searchValue'))
             /\ display' = filterBookmarks(lastSearch'.term)
       /\ Cardinality(timers') <= 1
       /\ \A t \in timers' : t.id = typing'.inputs /\ t.left = Wait - typing'.sinceInput
       /\ (typing'.inputs > 0 /\ timers' = {}) => typing'.passes = 1]_vars

\* C16 witness: a burst of three input events, no pass between them, then the
\* one pass, with the last value, and time going on after it.
DebouncedSearchWitness ==
    /\ typing.inputs = 3 /\ typing.total = 1 /\ typing.passes = 1
    /\ typing.sinceInput > Wait
    /\ timers = {}
    /\ searchValue = <<"A", " ">> /\ lastSearch.term = <<"a">>
    /\ display.list[1] = "" /\ display.list[2] = ""

(***************************************************************************)
(* The cache version (src/unnamed/part_000): init awaits loadConfig, which *)
(* throws when config.json is missing or names no karakeepUrl, then        *)
(* loadBookmarksFromCache, which fetches the lists and the bookmarks from  *)
(* the cache endpoints, transforms the bookmarks, builds and renders the   *)
(* hierarchy, and tells a cache that is not yet synced from a failure by   *)
(* the text of the error.  The sync status indicator it then sets up is    *)
(* outside the page content and is not modelled.                           *)
(***************************************************************************)
FailedToLoadLists ==
    <<"F", "a", "i", "l", "e", "d", " ", "t", "o", " ", "l", "o", "a", "d",
      " ", "l", "i", "s", "t", "s", ":", " ">>

FailedToLoadBookmarks ==
    <<"F", "a", "i", "l", "e", "d", " ", "t", "o", " ", "l", "o", "a", "d",
      " ", "b", "o", "o", "k", "m", "a", "r", "k", "s", ":", " ">>

\* the message of the TypeError of a rejected fetch
FailedToFetch ==
    <<"F", "a", "i", "l", "e", "d", " ", "t", "o", " ", "f", "e", "t", "c",
      "h">>

\* the message of the SyntaxError of response.json() on a body cut off there
UnterminatedAt404 ==
    <<"U", "n", "t", "e", "r", "m", "i", "n", "a", "t", "e", "d", " ", "s",
      "t", "r", "i", "n", "g", " ", "i", "n", " ", "J", "S", "O", "N", " ",
      "a", "t", " ", "p", "o", "s", "i", "t", "i", "o", "n", " ", "4", "0",
      "4">>

NotFoundText ==
    <<"N", "o", "t", " ", "F", "o", "u", "n", "d">>

ServerErrorText ==
    <<"I", "n", "t", "e", "r", "n", "a", "l", " ", "S", "e", "r", "v", "e",
      "r", " ", "E", "r", "r", "o", "r">>

UpstreamText ==
    <<"U", "p", "s", "t", "r", "e", "a", "m", " ", "4", "0", "4">>

NotFoundMark == <<"4", "0", "4">>

DigitChars == <<"0", "1", "2", "3", "4", "5", "6", "7", "8", "9">>

\* `${response.status}` of a three-digit status
StatusDigits(status) ==
    <<DigitChars[(status \div 100) + 1], DigitChars[((status \div 10) % 10) + 1],
      DigitChars[(status % 10) + 1]>>

Answer(status, statusText, parseError, body) ==
    [rejected |-> FALSE, status |-> status, statusText |-> statusText,
     parseError |-> parseError, body |-> body]

Rejected ==
    [rejected |-> TRUE, status |-> 0, statusText |-> <<>>, parseError |-> <<>>,
     body |-> <<>>]

responseOk(response) == response.status \in 200..299

\* what awaiting fetch and response.json() throws, if anything
fetchError(response, prefix) ==
    IF response.rejected THEN [thrown |-> TRUE, message |-> FailedToFetch]
    ELSE IF ~responseOk(response)
         THEN [thrown |-> TRUE,
               message |-> prefix \o StatusDigits(response.status) \o <<" ">>
                           \o response.statusText]
         ELSE IF response.parseError # <<>>
              THEN [thrown |-> TRUE, message |-> response.parseError]
              ELSE [thrown |-> FALSE, message |-> <<>>]

loadError ==
    LET listsError == fetchError(cache.lists, FailedToLoadLists)
    IN IF listsError.thrown THEN listsError
       ELSE fetchError(cache.bookmarks, FailedToLoadBookmarks)

NoContent == [present |-> FALSE, title |-> <<>>, url |-> <<>>]

RawBookmark(id, listId, title, name, content, metadataTitle, url, sourceUrl) ==
    [id |-> id, listId |-> listId, title |-> title, name |-> name, content |-> content,
     metadataTitle |-> metadataTitle, url |-> url, sourceUrl |-> sourceUrl]

transformBookmark(bookmark) ==
    [id |-> bookmark.id,
     bookmark_title |-> Or(bookmark.title, bookmark.name),
     link_title |-> Or(IF bookmark.content.present THEN bookmark.content.title ELSE <<>>,
                       bookmark.metadataTitle),
     url |-> Or(IF bookmark.content.present THEN bookmark.content.url ELSE <<>>,
                Or(bookmark.url, Or(bookmark.sourceUrl, Hash))),
     listId |-> bookmark.listId,
     asset |-> NoAsset]

\* the collation order of the characters the titles here are made of
CharOrder == <<" ", "a", "b", "c", "d", "e", "i", "l", "m", "n", "t", "u">>

Rank(c) == CHOOSE i \in DOMAIN CharOrder : CharOrder[i] = c

RECURSIVE localeCompare(_, _)
localeCompare(a, b) ==
    IF a = <<>> /\ b = <<>> THEN 0
    ELSE IF a = <<>> THEN -1
    ELSE IF b = <<>> THEN 1
    ELSE IF Head(a) = Head(b) THEN localeCompare(Tail(a), Tail(b))
    ELSE IF Rank(Head(a)) < Rank(Head(b)) THEN -1 ELSE 1

SortTitle(b) == toLowerCase(Or(b.bookmark_title, Or(b.link_title, Untitled)))

RECURSIVE InsertByTitle(_, _)
InsertByTitle(sorted, b) ==
    IF sorted = <<>> THEN <<b>>
    ELSE IF localeCompare(SortTitle(b), SortTitle(Head(sorted))) < 0 THEN <<b>> \o sorted
    ELSE <<Head(sorted)>> \o InsertByTitle(Tail(sorted), b)

\* Array.prototype.sort is stable
RECURSIVE sortBookmarks(_)
sortBookmarks(bms) ==
    IF bms = <<>> THEN <<>>
    ELSE InsertByTitle(sortBookmarks(SubSeq(bms, 1, Len(bms) - 1)), bms[Len(bms)])

\* list ids stand for the lists' places in name order
NameBefore(a, b) == a < b

sortByName(ids) == SortSeq(ids, NameBefore)

LoadConfigCache ==
    /\ pc = "start"
    /\ \E outcome \in {"ok", "invalid", "unavailable"} :
          /\ config' = IF outcome = "unavailable" THEN config
                       ELSE loadConfig(TRUE, configJson, localStorage)
          /\ pc' = IF outcome = "ok" THEN "config" ELSE "error"
          /\ loadLog' = [loadLog EXCEPT !.config = outcome]
    /\ loadedSeq' = storedSeq.server
    /\ UNCHANGED <<configJson, localStorage, lists, bookmarksInLists, listsById,
                   rootLists, columns, rendered, display, dragOverColumn, requests,
                   saveSeq, storedSeq, afterDrag, lastSearch, debounceVars, cacheVars>>

\* how the fetches ended, by the answers themselves
DataOutcome ==
    LET NotFound(r) == ~r.rejected /\ r.status = 404
        Fine(r) == ~r.rejected /\ responseOk(r) /\ r.parseError = <<>>
    IN IF NotFound(cache.lists) \/ (Fine(cache.lists) /\ NotFound(cache.bookmarks))
       THEN "notFound"
       ELSE IF Fine(cache.lists) /\ Fine(cache.bookmarks) THEN "ok" ELSE "failed"

LoadBookmarksFromCache ==
    /\ pc = "config"
    /\ LET error == loadError
           allBookmarks == cache.bookmarks.body
           rows == [i \in DOMAIN allBookmarks |-> transformBookmark(allBookmarks[i])]
           built == BuildListsById(cache.lists.body, rows)
           byId == [id \in DOMAIN built |->
                       [built[id] EXCEPT !.bookmarks = sortBookmarks(@)]]
           pool == ApplyColumnOrder(sortByName(RootPool(cache.lists.body, byId)),
                                    config.preferences)
           assigned == AssignColumns(pool, config.preferences)
           els == UNION {renderList(byId, pool[i], 0, Null) : i \in DOMAIN pool}
           IsCard(id) == \E e \in els : e.id = id /\ e.level = 0
       IN IF ~error.thrown
          THEN /\ lists' = cache.lists.body
               /\ bookmarksInLists' = rows
               /\ listsById' = byId
               /\ rootLists' = pool
               /\ columns' = [c \in ColumnIndexes |-> SelectSeq(assigned[c], IsCard)]
               /\ rendered' = els
               /\ display' = AllShown(els)
               /\ pc' = "rendered"
               /\ reloadTimers' = reloadTimers
          ELSE /\ pc' = IF includes(error.message, NotFoundMark) THEN "notSynced"
                        ELSE "error"
               /\ reloadTimers' = IF includes(error.message, NotFoundMark)
                                  THEN reloadTimers + 1 ELSE reloadTimers
               /\ UNCHANGED <<lists, bookmarksInLists, listsById, rootLists, columns,
                              rendered, display>>
    /\ loadLog' = [loadLog EXCEPT !.data = DataOutcome]
    /\ dragOverColumn' = {}
    /\ lastSearch' = NoSearch
    /\ UNCHANGED <<configJson, localStorage, config, requests, saveSeq, storedSeq,
                   loadedSeq, afterDrag, debounceVars, cache>>

\* setTimeout(() => location.reload(), 5000) runs: the script starts again
AutoReload ==
    /\ reloadTimers > 0
    /\ pc' = "start"
    /\ config' = NoConfig
    /\ lists' = <<>>
    /\ bookmarksInLists' = <<>>
    /\ listsById' = <<>>
    /\ rootLists' = <<>>
    /\ columns' = NoColumns
    /\ rendered' = {}
    /\ display' = AllShown({})
    /\ dragOverColumn' = {}
    /\ loadedSeq' = 0
    /\ lastSearch' = NoSearch
    /\ searchValue' = <<>>
    /\ timeout' = Null
    /\ timers' = {}
    /\ typing' = NoTyping
    /\ reloadTimers' = 0
    /\ loadLog' = NoLoad
    /\ UNCHANGED <<configJson, localStorage, requests, saveSeq, storedSeq, afterDrag,
                   cache>>

\* answers of an endpoint that does not deliver
FailingAnswers ==
    {Rejected,
     Answer(404, NotFoundText, <<>>, <<>>),
     Answer(404, <<>>, <<>>, <<>>),
     Answer(500, ServerErrorText, <<>>, <<>>),
     Answer(502, UpstreamText, <<>>, <<>>),
     Answer(200, <<>>, UnterminatedAt404, <<>>)}

ListBodies ==
    {<<ListRow(1, Null)>>,
     <<ListRow(2, Null), ListRow(1, Null)>>,
     <<ListRow(1, Null), ListRow(2, 1)>>}

\* a bookmark in every upstream shape: each title and url field empty or not,
\* with and without a content object
RawShapes ==
    {RawBookmark(1, 1, title, name, content, metadataTitle, url, sourceUrl) :
        title \in {<<>>, <<"b">>}, name \in {<<>>, <<"a">>},
        content \in {NoContent}
                    \cup {[present |-> TRUE, title |-> t, url |-> u] :
                             t \in {<<>>, <<"c">>}, u \in {<<>>, <<"c", "u">>}},
        metadataTitle \in {<<>>, <<"m">>},
        url \in {<<>>, <<"u">>}, sourceUrl \in {<<>>, <<"s">>}}

OtherBookmark == RawBookmark(2, 1, <<"b">>, <<>>, NoContent, <<>>, <<"u">>, <<>>)

BookmarkBodies ==
    UNION {{<<b>>, <<b, OtherBookmark>>, <<OtherBookmark, b>>} : b \in RawShapes}

CacheInputs ==
    {[lists |-> Answer(200, <<>>, <<>>, ls), bookmarks |-> Answer(200, <<>>, <<>>, bms)] :
        ls \in ListBodies, bms \in BookmarkBodies}
    \cup {[lists |-> l, bookmarks |-> Answer(200, <<>>, <<>>, <<OtherBookmark>>)] :
             l \in FailingAnswers}
    \cup {[lists |-> Answer(200, <<>>, <<>>, <<ListRow(1, Null)>>), bookmarks |-> b] :
             b \in FailingAnswers}

InitCache ==
    /\ InitPage
    /\ configJson = NoPreferencesJson
    /\ localStorage = EmptyStorage
    /\ lists = <<>>
    /\ bookmarksInLists = <<>>
    /\ cache \in CacheInputs

NextCache == LoadConfigCache \/ LoadBookmarksFromCache \/ AutoReload

SpecCache == InitCache /\ [][NextCache]_vars

\* C18 (as claimed): when the lists or the bookmarks endpoint answers 404, the
\* load ends in the not-yet-synced state with one page reload scheduled; after
\* every other failure of the load (config.json, a rejected fetch, another
\* status, an unreadable body) the page shows the error and no reload is
\* scheduled.
NotSyncedOrFatal ==
    /\ loadLog.data = "notFound" => (pc = "notSynced" /\ reloadTimers = 1)
    /\ loadLog.data = "failed" => (pc = "error" /\ reloadTimers = 0)
    /\ loadLog.config \in {"invalid", "unavailable"} => (pc = "error" /\ reloadTimers = 0)
    /\ pc = "error" => rendered = {}

\* the upstream bookmark a row was made from
RawOf(id) == CHOOSE b \in Range(cache.bookmarks.body) : b.id = id

UserTitle(raw) == IF raw.title # <<>> THEN raw.title ELSE raw.name

CrawledTitle(raw) ==
    IF raw.content.present /\ raw.content.title # <<>> THEN raw.content.title
    ELSE raw.metadataTitle

\* C19: a rendered bookmark shows the user-set title when that is not empty,
\* else the crawled title when that is not empty, else 'Untitled'; the row kept
\* in the hierarchy still has the two titles as two fields.
TitleResolution ==
    pc = "rendered" =>
        \A e \in rendered : \A k \in DOMAIN e.items :
            LET row == listsById[e.id].bookmarks[k]
                raw == RawOf(row.id)
                shown == IF UserTitle(raw) # <<>> THEN UserTitle(raw)
                         ELSE IF CrawledTitle(raw) # <<>> THEN CrawledTitle(raw)
                         ELSE Untitled
            IN /\ row.bookmark_title = UserTitle(raw)
               /\ row.link_title = CrawledTitle(raw)
               /\ e.items[k].title = shown
               /\ e.items[k].text = <<" ">> \o shown \o <<" ">>

\* C19 witness: bookmark 1 has no user-set title and a crawled one and shows the
\* crawled one; on another page it would show 'Untitled', here bookmark 2 shows
\* its user-set title.
TitleResolutionWitness ==
    /\ pc = "rendered"
    /\ \E e \in rendered : \E k, j \in DOMAIN e.items :
          LET row == listsById[e.id].bookmarks[k]
              other == listsById[e.id].bookmarks[j]
          IN /\ row.id = 1 /\ row.bookmark_title = <<>> /\ row.link_title = <<"c">>
             /\ RawOf(1).metadataTitle = <<"m">>
             /\ e.items[k].title = <<"c">>
             /\ other.id = 2 /\ e.items[j].title = <<"b">>

\* C20 (as claimed): the url of a rendered bookmark is the first non-empty of
\* the direct url field, the url of the content object and the source url, in
\* this order, and '#' when there is none.
UrlResolution ==
    pc = "rendered" =>
        \A e \in rendered : \A k \in DOMAIN e.items :
            LET raw == RawOf(listsById[e.id].bookmarks[k].id)
            IN e.items[k].href =
                  IF raw.url # <<>> THEN raw.url
                  ELSE IF raw.content.present /\ raw.content.url # <<>> THEN raw.content.url
                  ELSE IF raw.sourceUrl # <<>> THEN raw.sourceUrl
                  ELSE Hash

(***************************************************************************)
(* What the search claims speak of, read off the DOM.                      *)
(***************************************************************************)
Searched == pc = "rendered" /\ lastSearch.applied /\ lastSearch.term # <<>>

Contains(s, q) == \E i, j \in 0..Len(s) : i <= j /\ SubSeq(s, i + 1, j) = q

FieldsContain(it, q) ==
    \/ Contains(toLowerCase(ItemAt(it).text), q)
    \/ Contains(toLowerCase(ItemAt(it).title), q)
    \/ Contains(toLowerCase(ItemAt(it).href), q)

ColumnOfCard(card) == CHOOSE c \in ColumnIndexes : card \in Range(columns[c])

CardOf(id) == IF ElementOf(id).level = 0 THEN id
              ELSE CHOOSE a \in ContainersOf(id) : ElementOf(a).level = 0

\* the bookmark and everything it is rendered in are displayed
OnScreen(it) ==
    /\ display.bookmark[it] = ""
    /\ display.list[it[1]] = ""
    /\ \A a \in ContainersOf(it[1]) : display.list[a] = ""
    /\ display.column[ColumnOfCard(CardOf(it[1]))] = ""

RECURSIVE ItemsWithin(_)
ItemsWithin(id) ==
    {<<id, k>> : k \in DOMAIN ElementOf(id).items}
    \cup UNION {ItemsWithin(ElementOf(id).kids[i]) : i \in DOMAIN ElementOf(id).kids}

\* C4: after filterBookmarks with the empty query, whatever was filtered before,
\* every bookmark, every root list, every nested list and every column is
\* displayed, as right after the render (so a second empty query changes nothing).
SearchReset ==
    (pc = "rendered" /\ lastSearch.applied /\ lastSearch.term = <<>>)
    => display = AllShown(rendered)

\* C4 witness: the empty query came when a bookmark, a list container and a
\* column were hidden, on a page with nested lists.
SearchResetWitness ==
    /\ pc = "rendered" /\ lastSearch.applied /\ lastSearch.term = <<>>
    /\ lastSearch.hiddenBefore
    /\ \E e \in rendered : e.level = 2

\* C5: after filterBookmarks(q), q non-empty (and lower-cased and trimmed by the
\* listener), a bookmark at any nesting level is displayed exactly when its
\* visible title text, its title attribute or its URL, lower-cased, contains q;
\* and a bookmark displayed is on screen: its containers and column are shown.
BookmarkMatch ==
    Searched =>
        /\ lastSearch.term = toLowerCase(lastSearch.term)
        /\ Head(lastSearch.term) # " " /\ lastSearch.term[Len(lastSearch.term)] # " "
        /\ \A it \in ItemsOf(rendered) :
              /\ display.bookmark[it] = "" <=> FieldsContain(it, lastSearch.term)
              /\ display.bookmark[it] = "" => OnScreen(it)

\* C5 witness: in a level-2 list, a bookmark matched by its URL alone is
\* displayed, and another bookmark of the page is hidden.
BookmarkMatchWitness ==
    /\ Searched
    /\ \E it \in ItemsOf(rendered) :
          /\ ElementOf(it[1]).level = 2
          /\ OnScreen(it)
          /\ ~Contains(toLowerCase(ItemAt(it).title), lastSearch.term)
          /\ Contains(toLowerCase(ItemAt(it).href), lastSearch.term)
    /\ \E it \in ItemsOf(rendered) : display.bookmark[it] = "none"

\* C8: after filterBookmarks(q), q non-empty, a root list card is displayed
\* exactly when a bookmark it owns directly is displayed or a nested list inside
\* it is displayed.
RootListVisible ==
    Searched =>
        \A card \in Cards :
            display.list[card] = "" <=>
                \/ \E k \in DOMAIN ElementOf(card).items : display.bookmark[<<card, k>>] = ""
                \/ \E e \in rendered : e.level > 0 /\ CardOf(e.id) = card
                                       /\ display.list[e.id] = ""

\* C8 witness: one card is displayed only because of a nested list, another card
\* is hidden.
RootListVisibleWitness ==
    /\ Searched
    /\ \E card \in Cards :
          /\ display.list[card] = ""
          /\ \A k \in DOMAIN ElementOf(card).items : display.bookmark[<<card, k>>] = "none"
          /\ \E e \in rendered : e.level > 0 /\ CardOf(e.id) = card /\ display.list[e.id] = ""
    /\ \E card \in Cards : display.list[card] = "none"

\* C9 (as claimed): after filterBookmarks(q), q non-empty, a list rendered at
\* level 2 is displayed exactly when a bookmark it owns directly is displayed,
\* also when deeper lists are rendered as level-2 containers inside it.
Level2ByOwnBookmarks ==
    Searched =>
        \A e \in rendered :
            e.level = 2 =>
                (display.list[e.id] = "" <=>
                    \E k \in DOMAIN e.items : display.bookmark[<<e.id, k>>] = "")

\* C9 (amended): a list rendered at level 2 is displayed exactly when a bookmark
\* it owns directly, or one owned by a deeper list rendered inside it, is
\* displayed; for a level-2 list with no list rendered inside it that is exactly
\* when a bookmark it owns directly is displayed.
Level2BySubtreeBookmarks ==
    Searched =>
        \A e \in rendered :
            e.level = 2 =>
                /\ display.list[e.id] = "" <=>
                      \E it \in ItemsWithin(e.id) : display.bookmark[it] = ""
                /\ e.kids = <<>> =>
                      (display.list[e.id] = "" <=>
                          \E k \in DOMAIN e.items : display.bookmark[<<e.id, k>>] = "")

\* C9 witness: a level-2 list is displayed though none of its own bookmarks is,
\* because of a bookmark of a level-2 list rendered inside it; an innermost
\* level-2 list is hidden.
Level2Witness ==
    /\ Searched
    /\ \E e \in rendered :
          /\ e.level = 2 /\ e.kids # <<>> /\ display.list[e.id] = ""
          /\ \A k \in DOMAIN e.items : display.bookmark[<<e.id, k>>] = "none"
    /\ \E e \in rendered : e.level = 2 /\ e.kids = <<>> /\ display.list[e.id] = ""

\* C10: after filterBookmarks(q), q non-empty, a column is displayed exactly when
\* one of its root list cards is displayed.
ColumnVisible ==
    Searched =>
        \A c \in ColumnIndexes :
            display.column[c] = "" <=>
                \E k \in DOMAIN columns[c] : display.list[columns[c][k]] = ""

\* C10 witness: one column is displayed, one is hidden with all its cards
\* hidden, one is hidden without any card.
ColumnVisibleWitness ==
    /\ Searched
    /\ \E c \in ColumnIndexes : display.column[c] = ""
    /\ \E c \in ColumnIndexes : columns[c] # <<>> /\ display.column[c] = "none"
    /\ \E c \in ColumnIndexes : columns[c] = <<>> /\ display.column[c] = "none"


(***************************************************************************)
(* What the rendering claims speak of: the depth of a list is the number   *)
(* of its ancestors, and a list is rooted when its parentId chain ends in  *)
(* a row without parentId.                                                 *)
(***************************************************************************)
\* C24: every list with a bookmark in its subtree whose parentId chain ends in a
\* root list is rendered exactly once, inside the container of its parent (a
\* card has none), with level min(d, 2), d its depth below the root; no other
\* list is rendered, so none with an empty subtree, and no level is above 2.
RenderDepthClamp ==
    pc = "rendered" =>
        LET RowOf(l) == lists[CHOOSE i \in DOMAIN lists : lists[i].id = l]
            Rooted(l) == \E r \in {l} \cup Ancestors(l) : RowOf(r).parentId = Null
            Depth(l) == Cardinality(Ancestors(l))
        IN /\ \A l \in ListIdsOf(lists) :
                LET els == {e \in rendered : e.id = l}
                IN IF Rooted(l) /\ SubtreeOwnsBookmark(l)
                   THEN /\ Cardinality(els) = 1
                        /\ \A e \in els :
                              /\ e.level = Min(Depth(l), 2)
                              /\ e.parent = ParentOf(l)
                              /\ e.parent # Null =>
                                    \E q \in rendered : q.id = e.parent /\ l \in Range(q.kids)
                   ELSE els = {}
           /\ \A e \in rendered : e.id \in ListIdsOf(lists) /\ e.level \in 0..2

\* C24 witness: a chain of four lists with the only bookmarks at its end: the
\* list at depth 3 is rendered at level 2 inside its parent, itself at level 2
\* and without bookmarks of its own.
RenderDepthWitness ==
    /\ pc = "rendered"
    /\ \E e, q \in rendered :
          /\ Cardinality(Ancestors(e.id)) = 3
          /\ e.level = 2 /\ e.parent = q.id /\ q.level = 2
          /\ Len(e.items) > 0 /\ Len(q.items) = 0
    /\ Len(lists) = MaxSearchLists

\* C25: a list whose parentId names a list that is not among the fetched ones is
\* the child of no list and is not a root list; neither it nor a list below it
\* is rendered or placed in a column, and none of their bookmarks is rendered;
\* the load ends with the page rendered.
UnknownParentIsDropped ==
    pc = "rendered" =>
        LET RowOf(l) == lists[CHOOSE i \in DOMAIN lists : lists[i].id = l]
            Unknown(l) == RowOf(l).parentId # Null /\ RowOf(l).parentId \notin ListIdsOf(lists)
            Below(l) == {d \in ListIdsOf(lists) : d = l \/ l \in Ancestors(d)}
        IN /\ loadLog.data = "ok"
           /\ \A l \in ListIdsOf(lists) :
                Unknown(l) =>
                   /\ l \notin Range(rootLists)
                   /\ \A q \in DOMAIN listsById : l \notin Range(listsById[q].children)
                   /\ \A d \in Below(l) :
                         /\ d \notin ColumnCards
                         /\ \A e \in rendered : e.id # d /\ d \notin Range(e.kids)

\* C25 witness: a list under an unknown parent has a child that owns a bookmark;
\* the page is rendered with the one well-formed list alone.
UnknownParentWitness ==
    /\ pc = "rendered"
    /\ \E l, d, r \in ListIdsOf(lists) :
          /\ lists[l].parentId = MaxLists + 1
          /\ lists[d].parentId = l
          /\ OwnsBookmark(d) /\ OwnsBookmark(r)
          /\ lists[r].parentId = Null
          /\ ColumnCards = {r}
          /\ {e.id : e \in rendered} = {r}

\* C30: for any list rows, also with parentId chains that form a cycle or name
\* the row itself, the load can always take its next step until the page is
\* rendered; the lists that hasBookmarksInChildren and renderList are applied to
\* (the lists without parentId and all that is reached from them by children)
\* are on no cycle, each at the end of a parentId chain that leads to a list
\* without parentId, so they form finite trees; no list on a cycle is rendered.
TerminatesOnMalformedLinks ==
    /\ pc # "rendered" => ENABLED NextHierarchy
    /\ pc = "rendered" =>
          LET RowOf(l) == lists[CHOOSE i \in DOMAIN lists : lists[i].id = l]
              Parentless == {l \in ListIdsOf(lists) : RowOf(l).parentId = Null}
              Step(S) == S \cup UNION {Range(listsById[l].children) : l \in S}
              Applied == Step(Step(Step(Step(Parentless))))
              Rooted(l) == \E r \in {l} \cup Ancestors(l) : r \in Parentless
          IN /\ Step(Applied) = Applied
             /\ \A l \in Applied :
                   /\ ~OnCycle(l)
                   /\ Rooted(l)
                   /\ \A k \in DOMAIN listsById[l].children :
                         ParentOf(listsById[l].children[k]) = l
             /\ \A l \in ListIdsOf(lists) :
                   OnCycle(l) => /\ l \notin Applied
                                 /\ l \notin Range(rootLists)
                                 /\ \A e \in rendered : e.id # l

\* C30 witness: two lists name each other as parent and one of them owns a
\* bookmark; the page is rendered with the one list without parentId.
TerminatesWitness ==
    /\ pc = "rendered"
    /\ \E a, b, r \in ListIdsOf(lists) :
          /\ a # b /\ r # a /\ r # b
          /\ lists[a].parentId = b /\ lists[b].parentId = a
          /\ a \in Range(listsById[b].children)
          /\ OwnsBookmark(a) /\ OwnsBookmark(r)
          /\ lists[r].parentId = Null
          /\ {e.id : e \in rendered} = {r}

(***************************************************************************)
(* Dragging while searching: three root lists, the first and the last with *)
(* a bookmark titled "a", the second with a nested list that holds one     *)
(* titled "b" (the query "a" hides the second card); cards are dragged and *)
(* queries typed in any order, with up to MaxInflight saves under way at   *)
(* once, answered in any order.                                            *)
(***************************************************************************)
InitDragSearch ==
    /\ InitCommon
    /\ configJson = NoPreferencesJson
    /\ localStorage = EmptyStorage
    /\ lists = <<ListRow(1, Null), ListRow(2, Null), ListRow(3, 2), ListRow(4, Null)>>
    /\ bookmarksInLists = <<BookmarkRow(1, 1, <<"a">>, <<>>, <<>>),
                            BookmarkRow(2, 3, <<"b">>, <<>>, <<>>),
                            BookmarkRow(3, 4, <<"a">>, <<>>, <<>>)>>

NextDragSearch == LoadConfig \/ LoadBookmarks \/ DragEnd \/ SaveResponse \/ SearchInput

SpecDragSearch == InitDragSearch /\ [][NextDragSearch]_vars


\* a step of filterBookmarks that shows: the page stays rendered and the query
\* on record or what is displayed changes
FilterPass ==
    /\ pc = "rendered" /\ pc' = "rendered"
    /\ lastSearch' # lastSearch \/ display' # display

\* C26: a filter pass, whatever the query, whatever was dragged before and
\* whatever saves are under way, leaves the column and the row of every card,
\* the rendered lists and bookmarks with their nesting and order, the
\* preferences in memory and the local store as they are, and posts nothing.
SearchChangesOnlyVisibility ==
    [][FilterPass => UNCHANGED <<columns, rendered, listsById, rootLists, config,
                                 localStorage, requests, saveSeq, storedSeq,
                                 configJson>>]_vars

\* C26 witness: a query hides the card that was dragged to another column
\* before; the card is still where it was dropped, where the preferences, the
\* local store and the save under way have it.
SearchOnlyVisibilityWitness ==
    /\ pc = "rendered" /\ lastSearch.applied /\ lastSearch.term # <<>>
    /\ saveSeq = 1 /\ Len(requests) = 1
    /\ \E c \in ColumnIndexes : \E id \in Range(columns[c]) :
          /\ id \notin Range(RoundRobin(rootLists)[c])
          /\ display.list[id] = "none"
          /\ config.preferences.columnLayout.cols[c] = columns[c]
          /\ localStorage.layout.cols[c] = columns[c]
          /\ requests[1].body.columnLayout.cols[c] = columns[c]

\* C27: the layout computed by the last drag, also a drag made while a query
\* hides cards, has an entry for each of the columns 0..N-1 and no other, names
\* every rendered root list exactly once, hidden ones included, names no nested
\* list, and is, column by column, the order of the cards on the page.
SavedLayoutIsPartition ==
    (pc = "rendered" /\ saveSeq > 0) =>
        LET saved == config.preferences.columnLayout
            roots == {e.id : e \in {q \in rendered : q.level = 0}}
            Places(id) == {<<c, k>> \in ColumnIndexes \X (1..Cardinality(rendered)) :
                              k \in DOMAIN saved.cols[c] /\ saved.cols[c][k] = id}
        IN /\ saved.present
           /\ \A key \in LayoutKeys \ ColumnIndexes : saved.cols[key] = <<>>
           /\ \A id \in roots : Cardinality(Places(id)) = 1
           /\ \A c \in ColumnIndexes : Range(saved.cols[c]) \subseteq roots
           /\ \A c \in ColumnIndexes : saved.cols[c] = columns[c]

\* C27 witness: a card was dragged out of its column while a query was active
\* (the column it left is still displayed, now empty) and the other card, hidden
\* by the query and holding a nested list, is in the saved layout.
SavedLayoutWitness ==
    /\ pc = "rendered" /\ saveSeq > 0
    /\ lastSearch.applied /\ lastSearch.term # <<>>
    /\ \E c \in ColumnIndexes : columns[c] = <<>> /\ display.column[c] = ""
    /\ \E c \in ColumnIndexes : \E id \in Range(config.preferences.columnLayout.cols[c]) :
          /\ display.list[id] = "none"
          /\ ElementOf(id).kids # <<>>

\* C28: every drop adds one request to those under way and leaves the others
\* as they are; its body is the layout of the page at that drop. A response
\* takes its request away and changes neither the preferences in memory nor
\* the local store: when every response has come, in any order, both hold the
\* layout of the last drop.
OverlappingSaves ==
    [][/\ Dropped =>
             /\ Len(requests') = Len(requests) + 1
             /\ SubSeq(requests', 1, Len(requests)) = requests
             /\ \A c \in ColumnIndexes :
                   requests'[Len(requests')].body.columnLayout.cols[c] = columns'[c]
       /\ (~Dropped /\ requests' # requests) =>
             /\ \E i \in DOMAIN requests : requests' = RemoveAt(requests, i)
             /\ config' = config /\ localStorage' = localStorage
       /\ (pc' = "rendered" /\ saveSeq' > 0) =>
             \A c \in ColumnIndexes :
                /\ config'.preferences.columnLayout.cols[c] = afterDrag'[c]
                /\ localStorage'.layout.cols[c] = afterDrag'[c]]_vars

\* C28 witness: two drops were made with both saves under way; the second was
\* answered first and the first was stored last, so config.json serves the
\* layout of the first drop while memory and the local store hold the second.
OverlappingSavesWitness ==
    /\ pc = "rendered" /\ saveSeq = 2 /\ requests = <<>>
    /\ storedSeq.server = 1
    /\ configJson.hasPreferences
    /\ \E c \in ColumnIndexes : configJson.preferences.columnLayout.cols[c] # afterDrag[c]
    /\ \A c \in ColumnIndexes :
          /\ config.preferences.columnLayout.cols[c] = afterDrag[c]
          /\ localStorage.layout.cols[c] = afterDrag[c]

\* C29 (as claimed): in every state in which the last filter pass had a
\* non-empty query, also after cards were dragged between columns since, a
\* column is displayed exactly when it holds a displayed card.
ColumnsStayConsistent ==
    (pc = "rendered" /\ lastSearch.applied /\ lastSearch.term # <<>>) =>
        \A c \in ColumnIndexes :
            display.column[c] = "" <=>
               \E id \in Range(columns[c]) : display.list[id] = ""

====
